---- MODULE Spec2Model ----
(***************************************************************************)
(* Listen Together: the playback-synchronisation core.                     *)
(*                                                                         *)
(*   server.js                      host poller, latest-update registry,   *)
(*                                  socket.io fan-out                      *)
(*   src/hooks/useListenerSync.ts   per-client reconciler (syncPlayback)   *)
(*   src/hooks/useHostSync.ts       host-role client pushing host_update   *)
(*   src/hooks/useInterpolatedProgress.ts, syncToHost                      *)
(*                                  the two position estimators            *)
(*                                                                         *)
(* Four specifications share the definitions below:                        *)
(*   SpecEst   the position estimators applied to bounded inputs           *)
(*   SpecRec   one listener's reconciler fed a stream of host updates      *)
(*   Spec      the host, the server, the sockets and the two pages         *)
(*   FairSpec  the server and the listener's page under fair scheduling    *)
(***************************************************************************)
EXTENDS Integers, Sequences, FiniteSets, Bags

(***************************************************************************)
(* Bounds of the model.                                                    *)
(***************************************************************************)
TickMs == 6000
MaxTicks == 1
MaxInFlight == 1
MaxCount == 2
MaxInbox == 2
MaxOutbox == 1
MaxHostChanges == 1
MaxDisconnects == 1
MaxPolls == 2

(***************************************************************************)
(* Program constants.                                                      *)
(***************************************************************************)
SYNC_TOLERANCE_MS == 5000
POLL_INTERVAL == 3000
\* The cooldown the specification asks for (section 4.4: 3000 to 15000 ms); the
\* code has none.
COOLDOWN_MS == 3000

NULL == "null"
Tracks == {"A", "B"}
TrackDurationMs == 2 * TickMs
MaxTime == MaxTicks * TickMs

Min(a, b) == IF a < b THEN a ELSE b
Max(a, b) == IF a > b THEN a ELSE b
Abs(a) == IF a < 0 THEN 0 - a ELSE a

\* A nullable value: None, or Some(v).
None == << >>
Some(v) == << v >>
IsNull(x) == x = << >>
Val(x) == x[1]

\* A HostUpdate as server.js builds it (the display-only fields trackName,
\* artistName, albumName and albumImageUrl follow trackUri and are left out).
MkUpdate(uri, playing, progress, duration, ts) ==
  [trackUri |-> uri, isPlaying |-> playing, progressMs |-> progress,
   durationMs |-> duration, timestamp |-> ts]

VARIABLES
  now,              \* wall clock, Date.now()
  estUpdate,        \* SpecEst: the props given to the estimators
  currentProgress,  \* SpecEst: useInterpolatedProgress's state
  clampedPosition,  \* SpecEst: syncToHost's positionMs
  estPc,            \* SpecEst: which estimator step ran last
  \* ---- per client (useListenerSync, the socket, the Spotify device) ----
  connected,        \* socket.connected
  hostState,        \* useState hostState: None or Some(update)
  syncStatus,       \* "disconnected" | "syncing" | "synced" | "error"
  error,            \* useState error: NULL or a message
  isSyncEnabled,    \* useState isSyncEnabled
  lastSyncedTrack,  \* useRef lastSyncedTrack
  lastSyncedPosition, \* useRef lastSyncedPosition
  deviceId,         \* useSpotifyPlayer's deviceId: NULL until the player is ready
  inFlight,         \* the bag of /api/spotify/play requests syncPlayback is awaiting
  devTrack,         \* the track loaded on the client's Spotify device
  devPlaying,       \* whether that device is playing
  \* ---- the host's Spotify account, the server, the sockets ----
  hostTrack,        \* the track the host's Spotify account has loaded
  hostPlaying,      \* whether the host's Spotify account is playing
  latestHostUpdate, \* server.js latestHostUpdate: None or Some(update)
  pollsInFlight,    \* the runs of pollHostPlayback the timer started whose fetch has
                    \* not come back yet, counted up to MaxPolls
  inbox,            \* per client: the events emitted to its socket, not yet handled
  outbox,           \* per client: the events it emitted, not yet handled by the server
  registered,       \* per client: the hook's effect has put its handlers on the socket
  hasRequestedInitialSync, \* useRef hasRequestedInitialSync
  disconnects,      \* the connections lost so far, counted up to MaxDisconnects
  lastTrackUriRef,  \* useHostSync's lastTrackUriRef (the host's page)
  lastIsPlayingRef, \* useHostSync's lastIsPlayingRef: None or Some(boolean)
  \* ---- history variables, read by the properties only ----
  hostChanges,      \* the changes the host made so far on Spotify, counted up to
                    \* MaxHostChanges; -1 when they are not counted
  resyncPending,    \* per client: manualSync has run and no update was handled since
  lastArrived,      \* the update that reached the registry last: None or Some(update)
  lastReceived,     \* Some([c, update]) right after client c handled an update, else None
  lastDone,         \* Some([c, kind, outcome]) right after a command of client c came
                    \* back, or a poll of the server (c = "server") started or came
                    \* back, else None
  overtaken,        \* how many of the polls in flight were started before a poll
                    \* that has already come back
  lastEmit,         \* Some([event, to, update]) right after the server emitted an event
                    \* to the sockets of the set to, else None
  steadyLoads,      \* the play (load) commands issued so far, counted up to MaxCount,
                    \* while every update received continued the one before it in real
                    \* time on one playing track and every command was answered OK
                    \* before the next update; -1 once that is no longer so
  sinceCorrection,  \* the time since the last play (load) command was issued, counted
                    \* up to COOLDOWN_MS (and COOLDOWN_MS when there was none); -1
                    \* when it is not followed
  \* ---- the guest's video surface (YouTubePlayer, useYouTubePlayer) ----
  videoId,          \* useState videoId: NULL or the video found for a track
  lastSearchedTrack, \* useRef lastSearchedTrack: NULL or a track key
  searches,         \* the bag of /api/youtube/search requests searchVideo is awaiting
  isReady,          \* useYouTubePlayer's isReady
  isPlaying,        \* useYouTubePlayer's isPlaying
  loadedVideo,      \* the video the YouTube player has loaded: NULL or a video
  lastLoads         \* how many times the last step called loadVideoById

estVars == << estUpdate, currentProgress, clampedPosition, estPc >>
clientVars == << connected, hostState, syncStatus, error, isSyncEnabled,
                 lastSyncedTrack, lastSyncedPosition, deviceId, inFlight,
                 devTrack, devPlaying >>
histVars == << lastReceived, lastDone, lastEmit, steadyLoads, sinceCorrection, lastArrived,
              hostChanges, resyncPending >>
sysVars == << hostTrack, hostPlaying, latestHostUpdate, pollsInFlight, overtaken, inbox, outbox, registered,
              disconnects,
              hasRequestedInitialSync, lastTrackUriRef, lastIsPlayingRef >>
videoVars == << videoId, lastSearchedTrack, searches, isReady, isPlaying,
               loadedVideo, lastLoads >>
notEstVars == << clientVars, histVars, sysVars, videoVars >>
vars == << now, estVars, clientVars, histVars, sysVars, videoVars >>

(***************************************************************************)
(* Position estimators.                                                    *)
(***************************************************************************)

\* The reference function of the specification, section 4.3.
Clamp(x, lo, hi) == Max(lo, Min(x, hi))
Estimate(u, t) ==
  IF ~u.isPlaying THEN u.progressMs
  ELSE Clamp(u.progressMs + (t - u.timestamp), 0, u.durationMs)

\* useInterpolatedProgress with the clamp to the duration dropped.
InterpolateNoClamp(u, t) == u.progressMs + (t - u.timestamp)

\* useInterpolatedProgress, the interval callback.
Interpolate(u, t) == Min(u.progressMs + (t - u.timestamp), u.durationMs)

\* syncToHost: expectedPosition, clampedPosition and the positionMs it sends.
SyncToHostPosition(u, t) ==
  LET timeSinceUpdate == t - u.timestamp
      expectedPosition == IF u.isPlaying THEN u.progressMs + timeSinceUpdate
                          ELSE u.progressMs
  IN  Max(0, Min(expectedPosition, u.durationMs))



(***************************************************************************)
(* The listener hook, useListenerSync.                                     *)
(***************************************************************************)
Clients == {"L", "H"}

\* The props the page gives the hook: "L" is a Premium listener, "H" the host's
\* own page, which the hook treats as a display-only client. Both are signed
\* in, so both have a session's access token.
IsListener(c) == c = "L"
AccessToken(c) == "token"

\* The positionMs syncPlayback sends with a play request: update.progressMs || 0.
PlayPosition(u, t) == u.progressMs

\* syncPlayback's decision with the sync toggle ignored.
SyncDecisionNoToggle(c, u) ==
  IF ~IsListener(c) \/ deviceId[c] = NULL \/ AccessToken(c) = NULL THEN "none"
  ELSE IF ~u.isPlaying THEN "pause"
  ELSE IF u.trackUri # NULL
          /\ (lastSyncedTrack[c] # u.trackUri
              \/ Abs(u.progressMs - lastSyncedPosition[c]) > SYNC_TOLERANCE_MS)
       THEN "play"
  ELSE "none"

\* syncPlayback's decision with the pause branch falling through to the play
\* branch.
SyncDecisionNoPauseReturn(c, u) ==
  IF ~IsListener(c) \/ deviceId[c] = NULL \/ AccessToken(c) = NULL
     \/ ~isSyncEnabled[c] THEN "none"
  ELSE IF u.trackUri # NULL
          /\ (lastSyncedTrack[c] # u.trackUri
              \/ Abs(u.progressMs - lastSyncedPosition[c]) > SYNC_TOLERANCE_MS)
       THEN "play"
  ELSE IF ~u.isPlaying THEN "pause"
  ELSE "none"

\* syncPlayback's decision with the position drift ignored.
SyncDecisionNoDrift(c, u) ==
  IF ~IsListener(c) \/ deviceId[c] = NULL \/ AccessToken(c) = NULL
     \/ ~isSyncEnabled[c] THEN "none"
  ELSE IF ~u.isPlaying THEN "pause"
  ELSE IF u.trackUri # NULL /\ lastSyncedTrack[c] # u.trackUri THEN "play"
  ELSE "none"

\* syncPlayback up to its first await: the request it sends, if any.
SyncDecision(c, u) ==
  IF ~IsListener(c) \/ deviceId[c] = NULL \/ AccessToken(c) = NULL
     \/ ~isSyncEnabled[c]
  THEN "none"
  ELSE LET trackChanged == lastSyncedTrack[c] # u.trackUri
           positionDrift == Abs(u.progressMs - lastSyncedPosition[c])
           needsPositionSync == positionDrift > SYNC_TOLERANCE_MS
       IN  IF ~u.isPlaying THEN "pause"
           ELSE IF u.trackUri # NULL /\ (trackChanged \/ needsPositionSync)
                THEN "play"
           ELSE "none"

\* The request body of a command.
Request(cmd, u) ==
  [kind |-> cmd, trackUri |-> u.trackUri,
   positionMs |-> IF cmd = "play" THEN PlayPosition(u, now) ELSE 0]

\* Whether update u continues update prev in real time: the same track, playing,
\* its position advanced by exactly the time between the two.
Continues(prev, u) ==
  /\ prev.isPlaying /\ u.isPlaying
  /\ u.trackUri = prev.trackUri /\ u.trackUri # NULL
  /\ u.timestamp >= prev.timestamp
  /\ u.progressMs - prev.progressMs = u.timestamp - prev.timestamp

\* Whether the request that update u makes client c send, if any, keeps the
\* requests it awaits below cap (the code has no such limit).
HasCommandRoom(c, u, cap) ==
  SyncDecision(c, u) # "none" => BagCardinality(inFlight[c]) < cap

\* handleHostUpdate: the handler of host_update and of sync_response.
\* (setLastSyncTime and onSync write state nothing here reads.)
HandleHostUpdate(c, u) ==
  LET cmd == SyncDecision(c, u)
      prev == IF IsNull(hostState[c]) THEN u ELSE Val(hostState[c])
  IN  /\ hostState' = [hostState EXCEPT ![c] = Some(u)]
      /\ error' = [error EXCEPT ![c] = NULL]
      /\ syncStatus' =
           IF IsListener(c) /\ deviceId[c] # NULL /\ AccessToken(c) # NULL
           THEN syncStatus
           ELSE [syncStatus EXCEPT ![c] = "synced"]
      /\ inFlight' =
           IF cmd = "none" THEN inFlight
           ELSE [inFlight EXCEPT ![c] = @ (+) SetToBag({Request(cmd, u)})]
      /\ steadyLoads' =
           [steadyLoads EXCEPT ![c] =
              IF @ = -1 \/ ~Continues(prev, u) \/ inFlight[c] # EmptyBag THEN -1
              ELSE IF cmd = "play" THEN Min(@ + 1, MaxCount)
              ELSE @]
      /\ sinceCorrection' =
           IF cmd = "play" /\ sinceCorrection[c] >= 0
           THEN [sinceCorrection EXCEPT ![c] = 0]
           ELSE sinceCorrection
      /\ resyncPending' = [resyncPending EXCEPT ![c] = FALSE]
      /\ lastReceived' = Some([c |-> c, update |-> u])
      /\ lastDone' = None
      /\ lastEmit' = None
      /\ UNCHANGED << connected, isSyncEnabled, lastSyncedTrack,
                      lastSyncedPosition, deviceId, devTrack, devPlaying,
                      lastArrived, hostChanges >>

Outcomes == {"ok", "rejected", "threw"}

\* syncPlayback after its await: the pending request r of client c ends with an
\* OK response, with an error response, or with fetch throwing.
CommandDone(c, r, outcome) ==
  /\ BagIn(r, inFlight[c])
  /\ inFlight' = [inFlight EXCEPT ![c] = @ (-) SetToBag({r})]
  /\ lastSyncedTrack' =
       IF (r.kind = "pause" /\ outcome # "threw") \/ (r.kind = "play" /\ outcome = "ok")
       THEN [lastSyncedTrack EXCEPT ![c] = r.trackUri]
       ELSE lastSyncedTrack
  /\ lastSyncedPosition' =
       IF r.kind = "play" /\ outcome = "ok"
       THEN [lastSyncedPosition EXCEPT ![c] = r.positionMs]
       ELSE lastSyncedPosition
  /\ syncStatus' =
       IF r.kind = "play" /\ outcome = "ok"
       THEN [syncStatus EXCEPT ![c] = "synced"]
       ELSE IF outcome = "threw" \/ (r.kind = "play" /\ outcome = "rejected")
       THEN [syncStatus EXCEPT ![c] = "error"]
       ELSE syncStatus
  /\ error' =
       IF outcome = "threw"
       THEN [error EXCEPT ![c] = "Failed to sync playback"]
       ELSE IF r.kind = "play" /\ outcome = "rejected"
       THEN [error EXCEPT ![c] = "Failed to control playback"]
       ELSE error
  \* the device obeys a request that was answered OK
  /\ devTrack' =
       IF r.kind = "play" /\ outcome = "ok"
       THEN [devTrack EXCEPT ![c] = r.trackUri] ELSE devTrack
  /\ devPlaying' =
       IF outcome = "ok"
       THEN [devPlaying EXCEPT ![c] = (r.kind = "play")] ELSE devPlaying
  /\ steadyLoads' =
       IF outcome = "ok" THEN steadyLoads
       ELSE [steadyLoads EXCEPT ![c] = -1]
  /\ lastReceived' = None
  /\ lastDone' = Some([c |-> c, kind |-> r.kind, outcome |-> outcome])
  /\ lastEmit' = None
  /\ UNCHANGED << connected, hostState, isSyncEnabled, deviceId,
                  sinceCorrection, lastArrived, hostChanges, resyncPending >>

\* The sync toggle of the HUD: setSyncEnabled(!isSyncEnabled).
ToggleSync(c) ==
  /\ IsListener(c)
  /\ isSyncEnabled' = [isSyncEnabled EXCEPT ![c] = ~@]
  /\ steadyLoads' = [steadyLoads EXCEPT ![c] = -1]
  /\ lastReceived' = None
  /\ lastDone' = None
  /\ lastEmit' = None
  /\ UNCHANGED << connected, hostState, syncStatus, error, lastSyncedTrack,
                  lastSyncedPosition, deviceId, inFlight, devTrack, devPlaying,
                  sinceCorrection, lastArrived, hostChanges, resyncPending >>

ClientInit ==
  /\ hostState = [c \in Clients |-> None]
  /\ syncStatus = [c \in Clients |-> "disconnected"]
  /\ error = [c \in Clients |-> NULL]
  /\ isSyncEnabled = [c \in Clients |-> TRUE]
  /\ lastSyncedTrack = [c \in Clients |-> NULL]
  /\ lastSyncedPosition = [c \in Clients |-> 0]
  /\ inFlight = [c \in Clients |-> EmptyBag]
  /\ devTrack = [c \in Clients |-> NULL]
  /\ devPlaying = [c \in Clients |-> FALSE]

\* The video surface before its player is ready and before any lookup.
VideoInit ==
  /\ videoId = NULL
  /\ lastSearchedTrack = NULL
  /\ searches = EmptyBag
  /\ isReady = FALSE
  /\ isPlaying = FALSE
  /\ loadedVideo = NULL
  /\ lastLoads = 0

\* The history of the reconciler, followed from the start.
HistoryInit ==
  /\ lastReceived = None
  /\ lastDone = None
  /\ lastEmit = None
  /\ steadyLoads = [c \in Clients |-> 0]
  /\ sinceCorrection = [c \in Clients |-> COOLDOWN_MS]
  /\ lastArrived = None
  /\ hostChanges = 0
  /\ resyncPending = [c \in Clients |-> FALSE]

\* The history of the registry, that of the reconciler not followed.
SysHistoryInit ==
  /\ lastReceived = None
  /\ lastDone = None
  /\ lastEmit = None
  /\ steadyLoads = [c \in Clients |-> -1]
  /\ sinceCorrection = [c \in Clients |-> -1]
  /\ lastArrived = None
  /\ hostChanges = 0
  /\ resyncPending = [c \in Clients |-> FALSE]

\* The server before its first poll, nobody on the page.
ServerInit ==
  /\ hostTrack = "A"
  /\ hostPlaying = FALSE
  /\ latestHostUpdate = None
  /\ pollsInFlight = 0
  /\ overtaken = 0
  /\ inbox = [c \in Clients |-> << >>]
  /\ outbox = [c \in Clients |-> << >>]
  /\ hasRequestedInitialSync = [c \in Clients |-> FALSE]
  /\ disconnects = 0
  /\ lastTrackUriRef = NULL
  /\ lastIsPlayingRef = None

EstIdleInit ==
  /\ estUpdate = MkUpdate(NULL, FALSE, 0, 0, 0)
  /\ currentProgress = 0
  /\ clampedPosition = 0
  /\ estPc = "unused"

(***************************************************************************)
(* SpecEst: the two estimators applied to bounded inputs.                  *)
(***************************************************************************)
EstInputs ==
  { MkUpdate(uri, p, pos, dur, ts) :
      uri \in {"A"}, p \in BOOLEAN,
      pos \in {0, TickMs, 2 * TickMs},
      dur \in {0, TickMs, 2 * TickMs + 1},
      ts \in {0, TickMs} }

EstInit ==
  /\ estUpdate \in EstInputs
  /\ now = estUpdate.timestamp
  /\ currentProgress = estUpdate.progressMs
  /\ clampedPosition = 0
  /\ estPc = "mounted"
  /\ ClientInit
  /\ VideoInit
  /\ HistoryInit
  /\ connected = [c \in Clients |-> FALSE]
  /\ deviceId = [c \in Clients |-> NULL]
  /\ ServerInit
  /\ registered = [c \in Clients |-> FALSE]

\* The first effect: new server data replaces the displayed progress.
EstServerUpdate ==
  /\ \E u \in EstInputs :
       /\ u.timestamp >= estUpdate.timestamp
       /\ now >= u.timestamp
       /\ estUpdate' = u
       /\ currentProgress' = u.progressMs
  /\ estPc' = "updated"
  /\ UNCHANGED << now, clampedPosition, notEstVars >>

\* The second effect's interval callback, which only runs while the update is
\* playing with a positive duration.
EstIntervalTick ==
  /\ estUpdate.isPlaying /\ estUpdate.durationMs > 0
  /\ now < MaxTime
  /\ now' = now + TickMs
  /\ currentProgress' = Interpolate(estUpdate, now')
  /\ estPc' = "interpolated"
  /\ UNCHANGED << estUpdate, clampedPosition, notEstVars >>

\* Time passing with no interval running (paused, or no duration known).
EstIdle ==
  /\ ~(estUpdate.isPlaying /\ estUpdate.durationMs > 0)
  /\ now < MaxTime
  /\ now' = now + TickMs
  /\ estPc' = "idle"
  /\ UNCHANGED << estUpdate, currentProgress, clampedPosition, notEstVars >>

\* syncToHost computing the position it would send at time now.
EstSyncToHost ==
  /\ clampedPosition' = SyncToHostPosition(estUpdate, now)
  /\ estPc' = "synced"
  /\ UNCHANGED << now, estUpdate, currentProgress, notEstVars >>

EstNext == EstServerUpdate \/ EstIntervalTick \/ EstIdle \/ EstSyncToHost

SpecEst == EstInit /\ [][EstNext]_vars

(***************************************************************************)
(* SpecRec: the reconciler of one listener, whose socket is connected and  *)
(* whose player is ready, fed an arbitrary stream of updates that name a   *)
(* track (the poller broadcasts no other), each up to one tick old.        *)
(***************************************************************************)
RecInputs ==
  { MkUpdate(uri, p, pos, TrackDurationMs, ts) :
      uri \in Tracks, p \in BOOLEAN,
      pos \in {0, TickMs},
      ts \in {t \in {now - TickMs, now} : t >= 0} }

RecInit ==
  /\ now = 0
  /\ EstIdleInit
  /\ ClientInit
  /\ VideoInit
  /\ HistoryInit
  /\ connected = [c \in Clients |-> c = "L"]
  /\ deviceId = [c \in Clients |-> IF c = "L" THEN "dev" ELSE NULL]
  /\ ServerInit
  /\ registered = [c \in Clients |-> c = "L"]

\* Time passes: a tick, which is no shorter than the poller's interval, so
\* that the poller's timer has fired, and started a poll, by the end of it.
Tick ==
  /\ now < MaxTime
  /\ now' = now + TickMs
  /\ pollsInFlight' = IF TickMs >= POLL_INTERVAL
                      THEN Min(pollsInFlight + 1, MaxPolls) ELSE pollsInFlight
  /\ sinceCorrection' =
       [c \in Clients |-> IF sinceCorrection[c] < 0 THEN sinceCorrection[c]
                          ELSE Min(sinceCorrection[c] + TickMs, COOLDOWN_MS)]
  /\ lastReceived' = None
  /\ lastDone' = None
  /\ lastEmit' = None
  /\ UNCHANGED << overtaken, clientVars, steadyLoads, lastArrived, hostChanges, resyncPending, estVars, videoVars,
                  hostTrack, hostPlaying, latestHostUpdate, inbox, outbox,
                  registered, disconnects, hasRequestedInitialSync, lastTrackUriRef,
                  lastIsPlayingRef >>

RecReceive ==
  /\ \E u \in RecInputs :
       HasCommandRoom("L", u, MaxInFlight) /\ HandleHostUpdate("L", u)
  /\ UNCHANGED << now, estVars, videoVars, sysVars >>

RecCommandDone ==
  /\ \E r \in BagToSet(inFlight["L"]), o \in Outcomes : CommandDone("L", r, o)
  /\ UNCHANGED << now, estVars, videoVars, sysVars >>

RecToggleSync == ToggleSync("L") /\ UNCHANGED << now, estVars, videoVars, sysVars >>

RecNext == Tick \/ RecReceive \/ RecCommandDone \/ RecToggleSync

SpecRec == RecInit /\ [][RecNext]_vars

(***************************************************************************)
(* Spec: the host's Spotify account, the server (poller, registry and      *)
(* socket handlers) and the two pages: "L", a listener, and "H", the       *)
(* host's own page, which also pushes host_update. The host's page is      *)
(* modelled in its host role (useHostSync): it displays its own state, and *)
(* what its socket is sent is not followed. The listener has no device     *)
(* here, as a guest has none, and displays what it receives; connections   *)
(* are not lost. SpecSession has the listener with its device and the      *)
(* loss of connections, SpecRec the answers to its commands.               *)
(***************************************************************************)
Listeners == {c \in Clients : IsListener(c)}

\* What the host's Spotify account reports when asked: the track is read at
\* its start, the system's properties not depending on the position.
HostSnapshot == MkUpdate(hostTrack, hostPlaying, 0, TrackDurationMs, now)

Msg(type, u) == [type |-> type, update |-> u]
RequestSyncMsg == [type |-> "request_sync", payload |-> None]
HostUpdateMsg(u) == [type |-> "host_update", payload |-> Some(u)]

\* The inboxes after an event is emitted to each client of the set to.
Emit(to, m) ==
  [c \in Clients |-> IF c \in to /\ IsListener(c) THEN Append(inbox[c], m)
                     ELSE inbox[c]]
HasRoom(to) == \A c \in to : IsListener(c) => Len(inbox[c]) < MaxInbox

ConnectedClients == {c \in Clients : connected[c]}

\* What the server has just emitted: event, to the sockets of the set to.
Emitted(event, to, u) == Some([event |-> event, to |-> to, update |-> u])

\* The reply to request_sync stamped with the time of the reply.
SyncResponseRefreshed(u) == Msg("sync_response", [u EXCEPT !.timestamp = now])

\* socket.emit("sync_response", latestHostUpdate): the registry's update as it
\* is stored.
SyncResponse(u) == Msg("sync_response", u)

\* The registry keeping whichever update was captured later.
RegistryKeepNewest(u) ==
  IF ~IsNull(latestHostUpdate) /\ Val(latestHostUpdate).timestamp > u.timestamp
  THEN latestHostUpdate ELSE Some(u)

\* latestHostUpdate = update, in the poller and in the host_update handler.
RegistryStore(u) == Some(u)

\* A connection that is sent nothing.
ConnectionGreetingNone == << >>

\* io.on("connection"): what the new socket is sent at once.
ConnectionGreeting ==
  IF ~IsNull(latestHostUpdate)
  THEN << Msg("sync_response", Val(latestHostUpdate)) >>
  ELSE << >>

\* The host changes track, pauses or resumes on Spotify.
HostChange ==
  /\ \E t \in Tracks, p \in BOOLEAN :
       /\ << t, p >> # << hostTrack, hostPlaying >>
       /\ hostTrack' = t
       /\ hostPlaying' = p
  /\ hostChanges < MaxHostChanges
  /\ hostChanges' = IF hostChanges < 0 THEN hostChanges ELSE hostChanges + 1
  /\ lastReceived' = None
  /\ lastDone' = None
  /\ lastEmit' = None
  /\ UNCHANGED << now, estVars, videoVars, clientVars, steadyLoads, sinceCorrection,
                  lastArrived, resyncPending, latestHostUpdate, pollsInFlight, overtaken, inbox, outbox, registered, disconnects,
                  hasRequestedInitialSync, lastTrackUriRef, lastIsPlayingRef >>

\* A poller that broadcasts only what changed since the update before:
\* lastTrackUri and lastIsPlaying are the registry's update's, being written
\* with it.
BroadcastsOnChange(update) ==
  /\ ConnectedClients # {}
  /\ \/ IsNull(latestHostUpdate)
     \/ Val(latestHostUpdate).trackUri # update.trackUri
     \/ Val(latestHostUpdate).isPlaying # update.isPlaying

\* if (connectedClients > 0), connectedClients being io.engine.clientsCount.
Broadcasts(update) == ConnectedClients # {}

\* The host closes Spotify: the account reports no track from now on.
HostStops ==
  /\ hostTrack # NULL
  /\ hostTrack' = NULL
  /\ hostPlaying' = FALSE
  /\ hostChanges < MaxHostChanges
  /\ hostChanges' = IF hostChanges < 0 THEN hostChanges ELSE hostChanges + 1
  /\ lastReceived' = None
  /\ lastDone' = None
  /\ lastEmit' = None
  /\ UNCHANGED << now, estVars, videoVars, clientVars, steadyLoads, sinceCorrection,
                  lastArrived, resyncPending, latestHostUpdate, pollsInFlight, overtaken, inbox, outbox, registered,
                  disconnects, hasRequestedInitialSync, lastTrackUriRef,
                  lastIsPlayingRef >>

\* What lastDone says of the poller: a run of pollHostPlayback started, or
\* came back with the given outcome.
PollEvent(outcome) == Some([c |-> "server", kind |-> "poll", outcome |-> outcome])

\* The polls in flight after one of them came back. Nothing orders the
\* answers: the one that comes back is one started before a poll that already
\* came back, or the j-th oldest of the others, which leaves the j-1 older
\* ones behind it.
OvertakenAfterAnswer ==
  { overtaken - 1 : x \in {1} \cap (1..overtaken) }
    \cup { overtaken + (j - 1) : j \in 1..(pollsInFlight - overtaken) }

\* A failed poll that empties the registry.
RegistryCleared == None

\* The registry after a poll that failed: the return of lines 48-57 and the
\* catch block write nothing.
RegistryAfterFailure == latestHostUpdate

\* A run of pollHostPlayback fails: the answer of its fetch is not OK (401
\* while the host is not authenticated, or any other status), or the fetch
\* throws. It logs and returns.
PollFails ==
  /\ pollsInFlight > 0
  /\ pollsInFlight' = pollsInFlight - 1
  /\ overtaken' \in OvertakenAfterAnswer
  /\ latestHostUpdate' = RegistryAfterFailure
  /\ lastReceived' = None
  /\ lastDone' = PollEvent("failed")
  /\ lastEmit' = None
  /\ UNCHANGED << now, estVars, videoVars, clientVars, steadyLoads, sinceCorrection,
                  lastArrived, hostChanges, resyncPending, hostTrack, hostPlaying,
                  inbox, outbox, registered, disconnects,
                  hasRequestedInitialSync, lastTrackUriRef, lastIsPlayingRef >>

\* A run of pollHostPlayback gets the answer of its fetch, the host
\* authenticated. With no track in the answer it returns at once; with a track
\* the registry is overwritten and the update goes to every connected socket.
Poll ==
  LET update == HostSnapshot
  IN  /\ pollsInFlight > 0
      /\ pollsInFlight' = pollsInFlight - 1
      /\ overtaken' \in OvertakenAfterAnswer
      /\ IF hostTrack = NULL
         THEN /\ lastEmit' = None
              /\ UNCHANGED << latestHostUpdate, lastArrived, inbox >>
         ELSE /\ HasRoom(ConnectedClients)
              /\ latestHostUpdate' = RegistryStore(update)
              /\ lastArrived' = Some(update)
              /\ inbox' = IF Broadcasts(update)
                          THEN Emit(ConnectedClients, Msg("host_update", update))
                          ELSE inbox
              /\ lastEmit' = IF Broadcasts(update)
                             THEN Emitted("host_update", ConnectedClients, update)
                             ELSE None
      /\ lastReceived' = None
      /\ lastDone' = PollEvent("ok")
      /\ UNCHANGED << now, estVars, videoVars, clientVars, steadyLoads, sinceCorrection,
                      hostChanges, resyncPending, hostTrack, hostPlaying, outbox, registered, disconnects,
                      hasRequestedInitialSync, lastTrackUriRef, lastIsPlayingRef >>

\* A disconnect handler that clears lastSyncedTrack.
TrackRefCleared(c) == [lastSyncedTrack EXCEPT ![c] = NULL]

\* The hook's disconnect handler, which sets the status and nothing else:
\* lastSyncedTrack stays what it was.
TrackRefAfterDisconnect(c) == lastSyncedTrack

\* The connection of client c's socket is lost: the server's disconnect
\* handler only logs, the events on their way either way are lost with the
\* connection, and the hook's disconnect handler, when it is on, sets the status.
Disconnect(c) ==
  /\ connected[c]
  /\ disconnects < MaxDisconnects
  /\ disconnects' = disconnects + 1
  /\ connected' = [connected EXCEPT ![c] = FALSE]
  /\ inbox' = [inbox EXCEPT ![c] = << >>]
  /\ outbox' = [outbox EXCEPT ![c] = << >>]
  /\ syncStatus' = IF registered[c]
                   THEN [syncStatus EXCEPT ![c] = "disconnected"]
                   ELSE syncStatus
  /\ lastSyncedTrack' = TrackRefAfterDisconnect(c)
  /\ lastReceived' = None
  /\ lastDone' = None
  /\ lastEmit' = None
  /\ UNCHANGED << now, estVars, videoVars, hostState, error, isSyncEnabled,
                  lastSyncedPosition, deviceId, inFlight,
                  devTrack, devPlaying, steadyLoads, sinceCorrection,
                  lastArrived, hostChanges, resyncPending,
                  hostTrack, hostPlaying, latestHostUpdate, pollsInFlight, overtaken, registered,
                  hasRequestedInitialSync, lastTrackUriRef, lastIsPlayingRef >>

\* A page opens its socket, or its socket reconnects: the server's connection
\* handler runs, and so does the hook's connect handler when it is on.
Connect(c) ==
  /\ ~connected[c]
  /\ connected' = [connected EXCEPT ![c] = TRUE]
  /\ IF registered[c]
     THEN /\ hasRequestedInitialSync' = [hasRequestedInitialSync EXCEPT ![c] = FALSE]
          /\ syncStatus' = [syncStatus EXCEPT ![c] = "syncing"]
          /\ outbox' = [outbox EXCEPT ![c] = Append(@, RequestSyncMsg)]
     ELSE UNCHANGED << hasRequestedInitialSync, syncStatus, outbox >>
  /\ inbox' = [inbox EXCEPT ![c] = IF IsListener(c) THEN ConnectionGreeting ELSE @]
  /\ lastEmit' = IF ConnectionGreeting # << >>
                 THEN Emitted("sync_response", {c}, ConnectionGreeting[1].update)
                 ELSE None
  /\ lastReceived' = None
  /\ lastDone' = None
  /\ UNCHANGED << now, estVars, videoVars, hostState, error, isSyncEnabled,
                  lastSyncedTrack, lastSyncedPosition, deviceId, inFlight,
                  devTrack, devPlaying, steadyLoads, sinceCorrection,
                  lastArrived, hostChanges, resyncPending,
                  hostTrack, hostPlaying, latestHostUpdate, pollsInFlight, overtaken, registered,
                  disconnects, lastTrackUriRef, lastIsPlayingRef >>

\* The page has set its socket state after "connect", and the hook's effect
\* runs: the handlers go on, and the initial sync is requested.
Register(c) ==
  /\ IsListener(c)
  /\ connected[c] /\ ~registered[c]
  /\ Len(outbox[c]) < MaxOutbox
  /\ registered' = [registered EXCEPT ![c] = TRUE]
  /\ IF ~hasRequestedInitialSync[c]
     THEN /\ hasRequestedInitialSync' = [hasRequestedInitialSync EXCEPT ![c] = TRUE]
          /\ syncStatus' = [syncStatus EXCEPT ![c] = "syncing"]
          /\ outbox' = [outbox EXCEPT ![c] = Append(@, RequestSyncMsg)]
     ELSE UNCHANGED << hasRequestedInitialSync, syncStatus, outbox >>
  /\ lastReceived' = None
  /\ lastDone' = None
  /\ lastEmit' = None
  /\ UNCHANGED << now, estVars, videoVars, connected, hostState, error, isSyncEnabled,
                  lastSyncedTrack, lastSyncedPosition, deviceId, inFlight,
                  devTrack, devPlaying, steadyLoads, sinceCorrection,
                  lastArrived, hostChanges, resyncPending,
                  hostTrack, hostPlaying, latestHostUpdate, pollsInFlight, overtaken, inbox,
                  disconnects, lastTrackUriRef, lastIsPlayingRef >>

\* useSpotifyPlayer reports the listener's device.
PlayerReady(c) ==
  /\ IsListener(c) /\ deviceId[c] = NULL
  /\ deviceId' = [deviceId EXCEPT ![c] = "dev"]
  /\ lastReceived' = None
  /\ lastDone' = None
  /\ lastEmit' = None
  /\ UNCHANGED << now, estVars, videoVars, connected, hostState, syncStatus, error,
                  isSyncEnabled, lastSyncedTrack, lastSyncedPosition, inFlight,
                  devTrack, devPlaying, steadyLoads, sinceCorrection,
                  lastArrived, hostChanges, resyncPending,
                  sysVars >>

\* A resync that leaves lastSyncedTrack as it is.
TrackRefKept(c) == lastSyncedTrack

\* manualSync: lastSyncedTrack.current = null.
TrackRefAfterManualSync(c) == [lastSyncedTrack EXCEPT ![c] = NULL]

\* manualSync, the page's resync button, the hook holding the socket: on a
\* connected socket the status goes to syncing, the two refs are cleared and
\* request_sync is emitted; on a socket that is not connected nothing happens.
ManualSync(c) ==
  /\ IsListener(c) /\ registered[c]
  /\ connected[c]
  /\ Len(outbox[c]) < MaxOutbox
  /\ syncStatus' = [syncStatus EXCEPT ![c] = "syncing"]
  /\ lastSyncedTrack' = TrackRefAfterManualSync(c)
  /\ lastSyncedPosition' = [lastSyncedPosition EXCEPT ![c] = 0]
  /\ outbox' = [outbox EXCEPT ![c] = Append(@, RequestSyncMsg)]
  /\ resyncPending' = [resyncPending EXCEPT ![c] = TRUE]
  /\ lastReceived' = None
  /\ lastDone' = None
  /\ lastEmit' = None
  /\ UNCHANGED << now, estVars, videoVars, connected, hostState, error, isSyncEnabled,
                  deviceId, inFlight, devTrack, devPlaying, steadyLoads,
                  sinceCorrection, lastArrived, hostChanges,
                  hostTrack, hostPlaying, latestHostUpdate, pollsInFlight, overtaken, inbox,
                  registered, disconnects, hasRequestedInitialSync,
                  lastTrackUriRef, lastIsPlayingRef >>

\* The socket hands its next event to the page: to handleHostUpdate when the
\* hook's handlers are on, to nobody before that.
Deliver(c) ==
  /\ inbox[c] # << >>
  /\ inbox' = [inbox EXCEPT ![c] = Tail(@)]
  /\ IF registered[c]
     THEN /\ HasCommandRoom(c, Head(inbox[c]).update, MaxInFlight)
          /\ HandleHostUpdate(c, Head(inbox[c]).update)
     ELSE /\ lastReceived' = None
          /\ lastDone' = None
          /\ lastEmit' = None
          /\ UNCHANGED << clientVars, steadyLoads, sinceCorrection, lastArrived, hostChanges, resyncPending >>
  /\ UNCHANGED << now, estVars, videoVars, hostTrack, hostPlaying, latestHostUpdate,
                  pollsInFlight, overtaken, outbox, registered, disconnects, hasRequestedInitialSync, lastTrackUriRef,
                  lastIsPlayingRef >>

\* A command of client c comes back.
Done(c) ==
  /\ \E r \in BagToSet(inFlight[c]) : CommandDone(c, r, "ok")
  /\ UNCHANGED << now, estVars, videoVars, sysVars >>

\* useHostSync's fetchCurrentlyPlaying on the host's page: the update is
\* emitted when the track or the play state changed since the last emit.
HostPush ==
  LET update == HostSnapshot
      trackChanged == lastTrackUriRef # update.trackUri
      playStateChanged == lastIsPlayingRef # Some(update.isPlaying)
  IN  /\ connected["H"] /\ (trackChanged \/ playStateChanged)
      /\ Len(outbox["H"]) < MaxOutbox
      /\ outbox' = [outbox EXCEPT !["H"] = Append(@, HostUpdateMsg(update))]
      /\ lastTrackUriRef' = update.trackUri
      /\ lastIsPlayingRef' = Some(update.isPlaying)
      /\ lastReceived' = None
      /\ lastDone' = None
      /\ lastEmit' = None
      /\ UNCHANGED << now, estVars, videoVars, clientVars, steadyLoads, sinceCorrection,
                      lastArrived, hostChanges, resyncPending, hostTrack, hostPlaying,
                      latestHostUpdate, pollsInFlight, overtaken, inbox, registered, disconnects,
                      hasRequestedInitialSync >>

\* The server handles the next event of client c's socket: host_update
\* overwrites the registry and goes to every other socket; request_sync is
\* answered with the registry's update, when there is one.
ServerHandle(c) ==
  /\ outbox[c] # << >>
  /\ outbox' = [outbox EXCEPT ![c] = Tail(@)]
  /\ LET m == Head(outbox[c])
     IN  IF m.type = "host_update"
         THEN /\ HasRoom(ConnectedClients \ {c})
              /\ latestHostUpdate' = RegistryStore(Val(m.payload))
              /\ lastArrived' = Some(Val(m.payload))
              /\ inbox' = Emit(ConnectedClients \ {c},
                               Msg("host_update", Val(m.payload)))
              /\ lastEmit' = Emitted("host_update", ConnectedClients \ {c},
                                     Val(m.payload))
         ELSE /\ HasRoom({c})
              /\ inbox' = IF ~IsNull(latestHostUpdate)
                          THEN Emit({c}, SyncResponse(Val(latestHostUpdate)))
                          ELSE inbox
              /\ lastEmit' = IF ~IsNull(latestHostUpdate)
                             THEN Emitted("sync_response", {c},
                                          SyncResponse(Val(latestHostUpdate)).update)
                             ELSE None
              /\ UNCHANGED << latestHostUpdate, lastArrived >>
  /\ lastReceived' = None
  /\ lastDone' = None
  /\ UNCHANGED << now, estVars, videoVars, clientVars, steadyLoads, sinceCorrection,
                  hostChanges, resyncPending, hostTrack, hostPlaying, pollsInFlight, overtaken, registered, disconnects, hasRequestedInitialSync,
                  lastTrackUriRef, lastIsPlayingRef >>

Init ==
  /\ now = 0
  /\ EstIdleInit
  /\ ClientInit
  /\ VideoInit
  /\ SysHistoryInit
  /\ connected = [c \in Clients |-> FALSE]
  /\ deviceId = [c \in Clients |-> NULL]
  /\ ServerInit
  /\ registered = [c \in Clients |-> FALSE]

Next ==
  \/ Tick
  \/ HostChange
  \/ Poll
  \/ HostPush
  \/ \E c \in Clients : Connect(c)
  \/ \E c \in Clients : Register(c)
  \/ \E c \in Clients : Deliver(c)
  \/ \E c \in Clients : ServerHandle(c)

Spec == Init /\ [][Next]_vars

(***************************************************************************)
(* SpecSession: the life of the listener's session: its connection is lost *)
(* and comes back, the listener asks for a resync, and the host may close  *)
(* Spotify. The host's page connects and disconnects, and pushes nothing.  *)
(***************************************************************************)
SessNext ==
  \/ Tick
  \/ HostChange
  \/ HostStops
  \/ Poll
  \/ \E c \in Clients : Connect(c)
  \/ \E c \in Clients : Disconnect(c)
  \/ Register("L")
  \/ PlayerReady("L")
  \/ ManualSync("L")
  \/ Deliver("L")
  \/ Done("L")
  \/ ServerHandle("L")

SpecSession == Init /\ [][SessNext]_vars

(***************************************************************************)
(* FairSpec: the server and the listener's page left to run for ever: the  *)
(* poller's timer keeps firing, every event emitted is handled, every      *)
(* command is answered OK, and the host changes what it plays as often as  *)
(* it likes. The clock's value is not followed: the reconciler reads no    *)
(* timestamp.                                                              *)
(***************************************************************************)
FairInit ==
  /\ now = 0
  /\ EstIdleInit
  /\ ClientInit
  /\ VideoInit
  /\ lastReceived = None
  /\ lastDone = None
  /\ lastEmit = None
  /\ steadyLoads = [c \in Clients |-> -1]
  /\ sinceCorrection = [c \in Clients |-> -1]
  /\ lastArrived = None
  /\ hostChanges = -1
  /\ resyncPending = [c \in Clients |-> FALSE]
  /\ connected = [c \in Clients |-> FALSE]
  /\ deviceId = [c \in Clients |-> NULL]
  /\ ServerInit
  /\ registered = [c \in Clients |-> FALSE]

\* setInterval(pollHostPlayback, POLL_INTERVAL): the interval has elapsed and
\* the timer starts pollHostPlayback, whatever else is still running.
TimerFires ==
  /\ pollsInFlight < MaxPolls
  /\ pollsInFlight' = pollsInFlight + 1
  /\ lastReceived' = None
  /\ lastDone' = PollEvent("started")
  /\ lastEmit' = None
  /\ UNCHANGED << overtaken, now, estVars, videoVars, clientVars, steadyLoads, sinceCorrection,
                  lastArrived, hostChanges, resyncPending, hostTrack, hostPlaying,
                  latestHostUpdate, inbox, outbox, registered, disconnects,
                  hasRequestedInitialSync, lastTrackUriRef, lastIsPlayingRef >>

FairNext ==
  \/ TimerFires
  \/ HostChange
  \/ Poll
  \/ Connect("L")
  \/ Register("L")
  \/ PlayerReady("L")
  \/ Deliver("L")
  \/ Done("L")
  \/ ServerHandle("L")

Fairness ==
  /\ WF_vars(TimerFires)
  /\ WF_vars(Poll)
  /\ WF_vars(Connect("L"))
  /\ WF_vars(Register("L"))
  /\ WF_vars(PlayerReady("L"))
  /\ WF_vars(Deliver("L"))
  /\ WF_vars(Done("L"))
  /\ WF_vars(ServerHandle("L"))

FairSpec == FairInit /\ [][FairNext]_vars /\ Fairness

(***************************************************************************)
(* FairPoller: the poller by itself, left to run for ever with the two     *)
(* pages connecting: its timer keeps starting polls, also while earlier    *)
(* ones are in flight, and every poll started comes back, with an answer   *)
(* or with a failure, in any order. The listener has no device here.       *)
(***************************************************************************)
PollerNext ==
  \/ TimerFires
  \/ HostChange
  \/ Poll
  \/ PollFails
  \/ \E c \in Clients : Connect(c)
  \/ Deliver("L")

PollerFairness ==
  /\ WF_vars(TimerFires)
  /\ WF_vars(Poll \/ PollFails)
  /\ WF_vars(Deliver("L"))

FairPoller == FairInit /\ [][PollerNext]_vars /\ PollerFairness

(***************************************************************************)
(* SpecGuarded: the older variant of the listener's hook, whose syncToHost *)
(* runs one command at a time, for one listener whose socket is connected  *)
(* and whose player is ready, fed the updates of SpecRec.                  *)
(***************************************************************************)

\* useRef isSyncingRef: syncToHost sets it before its only await and clears
\* it in finally, so it is set exactly while a request is awaited.
isSyncingRef(c) == inFlight[c] # EmptyBag

\* handleHostUpdate's needsSync, against the hostState of the last render.
NeedsSync(c, u) ==
  \/ IsNull(hostState[c])
  \/ Val(hostState[c]).trackUri # u.trackUri
  \/ Val(hostState[c]).isPlaying # u.isPlaying

\* syncToHost up to its await: whether it sends a request for update u.
SyncToHostSends(c, u) ==
  /\ IsListener(c) /\ deviceId[c] # NULL
  /\ NeedsSync(c, u)
  /\ u.trackUri # NULL /\ ~isSyncingRef(c)

\* The request syncToHost sends for update u.
SyncToHostRequest(u) ==
  [kind |-> IF u.isPlaying THEN "play" ELSE "pause", trackUri |-> u.trackUri,
   positionMs |-> IF u.isPlaying THEN SyncToHostPosition(u, now) ELSE 0]

\* handleHostUpdate of the older hook, syncToHost up to its await included.
GuardedHandleHostUpdate(c, u) ==
  /\ hostState' = [hostState EXCEPT ![c] = Some(u)]
  /\ syncStatus' = IF SyncToHostSends(c, u)
                   THEN [syncStatus EXCEPT ![c] = "syncing"] ELSE syncStatus
  /\ inFlight' = IF SyncToHostSends(c, u)
                 THEN [inFlight EXCEPT ![c] = @ (+) SetToBag({SyncToHostRequest(u)})]
                 ELSE inFlight
  /\ lastReceived' = Some([c |-> c, update |-> u])
  /\ lastDone' = None
  /\ lastEmit' = None
  /\ UNCHANGED << connected, error, isSyncEnabled, lastSyncedTrack,
                  lastSyncedPosition, deviceId, devTrack, devPlaying,
                  steadyLoads, sinceCorrection, lastArrived, hostChanges,
                  resyncPending >>

\* syncToHost after its await: only a play request's response is looked at.
SyncToHostDone(c, r, outcome) ==
  LET failed == outcome = "threw" \/ (r.kind = "play" /\ outcome = "rejected")
  IN  /\ BagIn(r, inFlight[c])
      /\ inFlight' = [inFlight EXCEPT ![c] = @ (-) SetToBag({r})]
      /\ syncStatus' = [syncStatus EXCEPT ![c] = IF failed THEN "error" ELSE "synced"]
      /\ error' = [error EXCEPT ![c] = IF failed THEN "Failed to sync playback" ELSE NULL]
      \* the device obeys a request that was answered OK
      /\ devTrack' =
           IF r.kind = "play" /\ outcome = "ok"
           THEN [devTrack EXCEPT ![c] = r.trackUri] ELSE devTrack
      /\ devPlaying' =
           IF outcome = "ok"
           THEN [devPlaying EXCEPT ![c] = (r.kind = "play")] ELSE devPlaying
      /\ lastReceived' = None
      /\ lastDone' = Some([c |-> c, kind |-> r.kind, outcome |-> outcome])
      /\ lastEmit' = None
      /\ UNCHANGED << connected, hostState, isSyncEnabled, lastSyncedTrack,
                      lastSyncedPosition, deviceId, steadyLoads, sinceCorrection,
                      lastArrived, hostChanges, resyncPending >>

GuardedReceive ==
  /\ \E u \in RecInputs : GuardedHandleHostUpdate("L", u)
  /\ UNCHANGED << now, estVars, videoVars, sysVars >>

GuardedCommandDone ==
  /\ \E r \in BagToSet(inFlight["L"]), o \in Outcomes : SyncToHostDone("L", r, o)
  /\ UNCHANGED << now, estVars, videoVars, sysVars >>

GuardedNext == Tick \/ GuardedReceive \/ GuardedCommandDone

SpecGuarded == RecInit /\ [][GuardedNext]_vars

(***************************************************************************)
(* SpecVideo: the video surface of a guest's page. The guest is client "L" *)
(* without a Spotify device: its hook only displays the updates, and its   *)
(* hostState is the prop of YouTubePlayer, which is switched on. An update *)
(* names its track by title and artist, which follow trackUri, and the     *)
(* video found for a track is named as the track is. The effects of a      *)
(* render run in the step that caused the render.                          *)
(***************************************************************************)
MaxSearches == 2

\* trackKey: `${hostState.trackName}-${hostState.artistName}`.
TrackKey(u) == u.trackUri

\* A lookup searchVideo awaits: its track key, and the isReady its closure
\* (and that of the loadVideo it calls) saw.
Search(key, ready) == [key |-> key, ready |-> ready]

\* The search effect's guard: it returns early.
SearchReturnsEarly(u) ==
  u.trackUri = NULL \/ TrackKey(u) = lastSearchedTrack

\* The lookups in flight after the search effect has run for update u.
SearchEffect(u) ==
  IF SearchReturnsEarly(u) THEN searches
  ELSE searches (+) SetToBag({Search(TrackKey(u), isReady)})

\* Whether the search effect's dependencies differ between two renders'
\* hostState: trackName, artistName, progressMs.
SearchDepsChanged(prev, u) ==
  IsNull(prev) \/ Val(prev).trackUri # u.trackUri
               \/ Val(prev).progressMs # u.progressMs

\* The page renders update u: the hook stores it, and the effects that depend
\* on hostState run: the search effect, the sync effect (play or pause), the
\* load effect (loadVideo whenever the player is ready and a video is known).
VideoReceive ==
  \E u \in RecInputs :
    LET prev == hostState["L"]
        loads == isReady /\ videoId # NULL
    IN  /\ HandleHostUpdate("L", u)
        /\ searches' = IF SearchDepsChanged(prev, u) THEN SearchEffect(u) ELSE searches
        /\ BagCardinality(searches') <= MaxSearches
        /\ loadedVideo' = IF loads THEN videoId ELSE loadedVideo
        /\ lastLoads' = IF loads THEN 1 ELSE 0
        /\ isPlaying' = IF loads THEN u.isPlaying ELSE isPlaying
        /\ UNCHANGED << videoId, lastSearchedTrack, isReady >>
        /\ UNCHANGED << now, estVars, sysVars >>

\* searchVideo after its await: the lookup s comes back with a video, with
\* none, or fetch throws. A video found is loaded by searchVideo when its
\* closure saw the player ready, and again by the load effect when videoId
\* changed.
SearchDone ==
  \E s \in BagToSet(searches), outcome \in {"found", "notfound", "threw"} :
    LET byClosure == IF outcome = "found" /\ s.ready THEN 1 ELSE 0
        byEffect == IF outcome = "found" /\ videoId # s.key /\ isReady
                       /\ ~IsNull(hostState["L"])
                    THEN 1 ELSE 0
    IN  /\ searches' = searches (-) SetToBag({s})
        /\ videoId' = IF outcome = "found" THEN s.key
                      ELSE IF outcome = "notfound" THEN NULL ELSE videoId
        /\ lastSearchedTrack' = IF outcome = "found" THEN s.key ELSE lastSearchedTrack
        /\ lastLoads' = byClosure + byEffect
        /\ loadedVideo' = IF byClosure + byEffect > 0 THEN s.key ELSE loadedVideo
        /\ isPlaying' = IF byEffect > 0 THEN Val(hostState["L"]).isPlaying ELSE isPlaying
        /\ lastReceived' = None
        /\ lastDone' = None
        /\ lastEmit' = None
        /\ UNCHANGED << isReady, now, estVars, clientVars, sysVars, steadyLoads,
                        sinceCorrection, lastArrived, hostChanges, resyncPending >>

\* The YouTube player's onReady: isReady and loadVideo change, so the search
\* effect and the load effect run again.
VideoPlayerReady ==
  LET loads == videoId # NULL /\ ~IsNull(hostState["L"])
  IN  /\ ~isReady
      /\ isReady' = TRUE
      /\ searches' = IF IsNull(hostState["L"]) \/ SearchReturnsEarly(Val(hostState["L"]))
                     THEN searches
                     ELSE searches (+) SetToBag({Search(TrackKey(Val(hostState["L"])), TRUE)})
      /\ BagCardinality(searches') <= MaxSearches
      /\ loadedVideo' = IF loads THEN videoId ELSE loadedVideo
      /\ lastLoads' = IF loads THEN 1 ELSE 0
      /\ isPlaying' = IF loads THEN Val(hostState["L"]).isPlaying ELSE isPlaying
      /\ lastReceived' = None
      /\ lastDone' = None
      /\ lastEmit' = None
      /\ UNCHANGED << videoId, lastSearchedTrack, now, estVars, clientVars, sysVars,
                      steadyLoads, sinceCorrection, lastArrived, hostChanges,
                      resyncPending >>

VideoPageInit ==
  /\ now = 0
  /\ EstIdleInit
  /\ ClientInit
  /\ VideoInit
  /\ SysHistoryInit
  /\ connected = [c \in Clients |-> c = "L"]
  /\ deviceId = [c \in Clients |-> NULL]
  /\ ServerInit
  /\ registered = [c \in Clients |-> c = "L"]

VideoNext == Tick \/ VideoReceive \/ SearchDone \/ VideoPlayerReady

SpecVideo == VideoPageInit /\ [][VideoNext]_vars

(***************************************************************************)
(* SpecHub: the server's handler of host_update, which any socket may      *)
(* send, with the host's page pushing what the host's account reports, a   *)
(* track or none, and the poller running. The pages only connect.          *)
(***************************************************************************)

\* The host's account plays something that is no track (an advertisement, an
\* episode): Spotify reports is_playing with a null item.
HostPlaysNoTrack ==
  /\ hostTrack # NULL
  /\ hostTrack' = NULL
  /\ hostPlaying' = TRUE
  /\ hostChanges < MaxHostChanges
  /\ hostChanges' = IF hostChanges < 0 THEN hostChanges ELSE hostChanges + 1
  /\ lastReceived' = None
  /\ lastDone' = None
  /\ lastEmit' = None
  /\ UNCHANGED << now, estVars, videoVars, clientVars, steadyLoads, sinceCorrection,
                  lastArrived, resyncPending, latestHostUpdate, pollsInFlight,
                  overtaken, inbox, outbox, registered, disconnects,
                  hasRequestedInitialSync, lastTrackUriRef, lastIsPlayingRef >>

\* A session that is not the host's emits host_update on its socket, as any
\* socket.io client can: an update of its own making.
ForeignPush(c) ==
  /\ IsListener(c) /\ connected[c]
  /\ Len(outbox[c]) < MaxOutbox
  /\ \E t \in Tracks :
       outbox' = [outbox EXCEPT
                    ![c] = Append(@, HostUpdateMsg(MkUpdate(t, TRUE, 0, TrackDurationMs, now)))]
  /\ lastReceived' = None
  /\ lastDone' = None
  /\ lastEmit' = None
  /\ UNCHANGED << now, estVars, videoVars, clientVars, steadyLoads, sinceCorrection,
                  lastArrived, hostChanges, resyncPending, hostTrack, hostPlaying,
                  latestHostUpdate, pollsInFlight, overtaken, inbox, registered,
                  disconnects, hasRequestedInitialSync, lastTrackUriRef,
                  lastIsPlayingRef >>

HubNext ==
  \/ Tick
  \/ HostChange
  \/ HostPlaysNoTrack
  \/ Poll
  \/ HostPush
  \/ \E c \in Clients : Connect(c)
  \/ \E c \in Clients : ForeignPush(c)
  \/ \E c \in Clients : ServerHandle(c)

SpecHub == Init /\ [][HubNext]_vars

(***************************************************************************)
(* SpecOverlap: the reconciler of SpecRec's listener with up to MaxOverlap *)
(* commands awaited at once, the clock standing still.                     *)
(***************************************************************************)
MaxOverlap == 2

OverlapReceive ==
  /\ \E u \in RecInputs :
       HasCommandRoom("L", u, MaxOverlap) /\ HandleHostUpdate("L", u)
  /\ UNCHANGED << now, estVars, videoVars, sysVars >>

OverlapNext == OverlapReceive \/ RecCommandDone

SpecOverlap == RecInit /\ [][OverlapNext]_vars

SyncActive(c) ==
  IsListener(c) /\ deviceId[c] # NULL /\ AccessToken(c) # NULL /\ isSyncEnabled[c]

\* In a step: client c has just handled an update, the one named Handled.
HasHandled(c) == ~IsNull(lastReceived') /\ Val(lastReceived').c = c
Handled == Val(lastReceived').update

\* In a step: exactly the request r was sent by client c, and nothing else.
SentOnly(c, r) == inFlight'[c] = inFlight[c] (+) SetToBag({r})
SentNothing(c) == inFlight'[c] = inFlight[c]

PauseRequest(u) == [kind |-> "pause", trackUri |-> u.trackUri, positionMs |-> 0]
PlayRequestAt(u, pos) == [kind |-> "play", trackUri |-> u.trackUri, positionMs |-> pos]

Drift(c, u) == Abs(u.progressMs - lastSyncedPosition[c])

(***************************************************************************)
(* C2: given a stream of updates of one playing track whose position       *)
(*   advances in real time, with every command answered OK before the next *)
(*   update, the reconciler issues at most one load command.               *)
(*   (Violated: the drift is measured against the position of the last     *)
(*   load, which does not advance, so the track is loaded again as soon as *)
(*   more than SYNC_TOLERANCE_MS of it has played.)                        *)
(***************************************************************************)
C2_Original == \A c \in Clients : steadyLoads[c] <= 1

(***************************************************************************)
(* C3: every update whose trackUri differs from the last applied track     *)
(*   makes a sync-enabled listener with a device send a load (play)        *)
(*   request for that track, whatever the update's isPlaying.              *)
(*   (Violated by a paused update: it is answered with a pause only.)      *)
(***************************************************************************)
C3_Original ==
  [][ \A c \in Clients :
        (HasHandled(c) /\ SyncActive(c) /\ Handled.trackUri # lastSyncedTrack[c])
          => \E pos \in 0..TrackDurationMs :
               BagIn(PlayRequestAt(Handled, pos), inFlight'[c] (-) inFlight[c]) ]_vars

(***************************************************************************)
(* C4: a paused update makes a sync-enabled listener with a device send    *)
(*   exactly one pause request and no load request, whatever the drift.    *)
(***************************************************************************)
C4_PauseWithoutSeek ==
  [][ \A c \in Clients :
        (HasHandled(c) /\ SyncActive(c) /\ ~Handled.isPlaying)
          => SentOnly(c, PauseRequest(Handled)) ]_vars

\* Witness: the host paused the track the listener has applied and is playing,
\* at a position beyond the tolerance, and only a pause request went out.
C4_Witness ==
  /\ ~IsNull(lastReceived)
  /\ Val(lastReceived).c = "L"
  /\ SyncActive("L")
  /\ ~Val(lastReceived).update.isPlaying
  /\ Val(lastReceived).update.trackUri = lastSyncedTrack["L"]
  /\ Drift("L", Val(lastReceived).update) > SYNC_TOLERANCE_MS
  /\ devPlaying["L"]
  /\ inFlight["L"] = SetToBag({PauseRequest(Val(lastReceived).update)})

(***************************************************************************)
(* C6: every load request sent for an update S at time now carries the     *)
(*   latency-compensated position Estimate(S, now).                        *)
(*   (Violated: syncPlayback sends S.progressMs as it was captured.)       *)
(***************************************************************************)
C6_Original ==
  [][ \A c \in Clients :
        HasHandled(c) =>
          \A r \in BagToSet(inFlight'[c] (-) inFlight[c]) :
            r.kind = "play" => r.positionMs = Estimate(Handled, now) ]_vars

C8_DisabledIsDisplayOnly ==
  [][ \A c \in Clients :
        (HasHandled(c) /\ ~isSyncEnabled[c])
          => SentNothing(c) /\ hostState'[c] = Some(Handled) ]_vars

\* Witness: with sync disabled, the listener took in a playing update of a
\* track it has not applied, and nothing is on its way to the device.
C8_Witness ==
  /\ ~IsNull(lastReceived)
  /\ Val(lastReceived).c = "L"
  /\ ~isSyncEnabled["L"]
  /\ deviceId["L"] # NULL
  /\ Val(lastReceived).update.isPlaying
  /\ Val(lastReceived).update.trackUri # lastSyncedTrack["L"]
  /\ hostState["L"] = Some(Val(lastReceived).update)
  /\ inFlight["L"] = EmptyBag

(***************************************************************************)
(* Properties of the server and the sockets, checked under Spec and        *)
(* FairSpec.                                                               *)
(***************************************************************************)

(***************************************************************************)
(* C1: for a host that stays paused: if from some time on the host stays   *)
(*   on one track, paused, while the server keeps polling and broadcasting *)
(*   and every command of the sync-enabled listener succeeds, then from    *)
(*   some time on the listener's device has that track loaded, paused.     *)
(*   (Violated: a paused update is answered with a pause only, and the     *)
(*   track is recorded as applied without ever being loaded.)              *)
(***************************************************************************)
C1_Original ==
  \A t \in Tracks :
    <>[](hostTrack = t /\ ~hostPlaying)
      => <>[](devTrack["L"] = t /\ ~devPlaying["L"])

SyncResponses(c) ==
  {i \in DOMAIN inbox[c] : inbox[c][i].type = "sync_response"}

(***************************************************************************)
(* C9 (as amended): a listener's socket that connects when the registry    *)
(*   holds an update is sent that update as a sync_response at once, as    *)
(*   the first event on the socket, ahead of every later broadcast and     *)
(*   with no poll in between. It is not the only one: the page emits       *)
(*   request_sync as soon as its handlers are on, and is answered with a   *)
(*   second sync_response.                                                 *)
(***************************************************************************)
C9_LateJoinerGreeting ==
  [][ \A c \in Listeners :
        (~connected[c] /\ connected'[c] /\ ~IsNull(latestHostUpdate))
          => /\ inbox'[c] = << Msg("sync_response", Val(latestHostUpdate)) >>
             /\ latestHostUpdate' = latestHostUpdate ]_vars

\* Witness: the listener connected after an update was stored, and has not put
\* its handlers on yet: the sync_response of the connection is first on its
\* socket, a broadcast made since behind it.
C9_Witness ==
  /\ connected["L"] /\ ~registered["L"]
  /\ Len(inbox["L"]) = 2
  /\ inbox["L"][1].type = "sync_response"
  /\ inbox["L"][2].type = "host_update"
  /\ latestHostUpdate = Some(inbox["L"][2].update)

\* C9 as stated: the connecting socket gets the update by sync_response exactly
\* once, so that no socket ever has two of them waiting.
C9_Original == \A c \in Clients : Cardinality(SyncResponses(c)) <= 1

(***************************************************************************)
(* C10: whatever the interleaving of polled and host-pushed updates, the   *)
(*   registry holds the update that reached it last, and a page's          *)
(*   hostState becomes the update its socket hands it, the first in its    *)
(*   queue, also when that update was captured before the one it replaces. *)
(***************************************************************************)
C10_LastReceivedWins ==
  /\ [](latestHostUpdate = lastArrived)
  /\ [][ \A c \in Clients :
           HasHandled(c)
             => /\ inbox[c] # << >>
                /\ Handled = Head(inbox[c]).update
                /\ hostState'[c] = Some(Handled) ]_vars

\* Witness: a pushed update, captured before the polled one, reached the
\* registry after it: it is the registry's update, and the listener is about to
\* be handed the two in that order.
C10_Witness ==
  /\ registered["L"]
  /\ Len(inbox["L"]) = 2
  /\ inbox["L"][1].update.timestamp > inbox["L"][2].update.timestamp
  /\ latestHostUpdate = Some(inbox["L"][2].update)
  /\ latestHostUpdate = lastArrived

(***************************************************************************)
(* Properties of the server's socket handlers (Spec).                      *)
(***************************************************************************)
\* The server handles client c's next event, which is of the given type.
ServerHandles(c, type) ==
  /\ outbox[c] # << >> /\ Head(outbox[c]).type = type
  /\ outbox'[c] = Tail(outbox[c])
  /\ connected'[c] = connected[c]

\* The inboxes after message m went to client c's socket and to no other.
InboxesAfterUnicast(c, m) ==
  [d \in Clients |-> IF d = c /\ IsListener(d) THEN Append(inbox[d], m) ELSE inbox[d]]

Disconnects(c) == connected[c] /\ ~connected'[c]

\* C12 (as stated): when a non-host session disconnects, the server sends every
\* remaining session a listener_count message.
C12_Original ==
  [][\A c \in Clients :
       (Disconnects(c) /\ IsListener(c) /\ ConnectedClients \ {c} # {}) =>
         /\ ~IsNull(lastEmit')
         /\ Val(lastEmit').event = "listener_count"
         /\ Val(lastEmit').to = ConnectedClients \ {c}]_vars

\* A run of pollHostPlayback gets its answer, an OK one, in this step.
PollCompletes ==
  /\ pollsInFlight' = pollsInFlight - 1
  /\ lastDone' = PollEvent("ok")

\* C13 (as stated): every successful poll overwrites the registry with the
\* update built from its answer, also when the answer says nothing is playing.
C13_Original ==
  [][PollCompletes =>
       latestHostUpdate' =
         Some(IF hostTrack # NULL THEN HostSnapshot
              ELSE MkUpdate(NULL, hostPlaying, 0, 0, now))]_vars

(***************************************************************************)
(* C14: every host poll whose answer names a track sends the update built  *)
(*   from it as host_update to every connected socket, once each, whether  *)
(*   or not the track or the play state differ from the update before;     *)
(*   with no socket connected it sends nothing.                            *)
(***************************************************************************)
C14_PollBroadcastsToAll ==
  [][(PollCompletes /\ hostTrack # NULL) =>
       IF ConnectedClients # {}
       THEN /\ lastEmit' = Emitted("host_update", ConnectedClients, HostSnapshot)
            /\ inbox' = [c \in Clients |->
                           IF connected[c] /\ IsListener(c)
                           THEN Append(inbox[c], Msg("host_update", HostSnapshot))
                           ELSE inbox[c]]
       ELSE lastEmit' = None /\ inbox' = inbox]_vars

\* A poll has just broadcast to both pages an update with the track and play
\* state of the update the listener displays, the host having changed nothing
\* since the start.
C14_Witness ==
  /\ ~IsNull(lastEmit)
  /\ Val(lastEmit).event = "host_update" /\ Val(lastEmit).to = {"L", "H"}
  /\ hostChanges = 0
  /\ resyncPending = [c \in Clients |-> FALSE]
  /\ ~IsNull(hostState["L"])
  /\ Val(hostState["L"]).trackUri = Val(lastEmit).update.trackUri
  /\ Val(hostState["L"]).isPlaying = Val(lastEmit).update.isPlaying
  /\ Val(hostState["L"]).timestamp < Val(lastEmit).update.timestamp
  /\ inbox["L"] = << Msg("host_update", Val(lastEmit).update) >>

(***************************************************************************)
(* Properties of the answers to the reconciler's commands.                 *)
(***************************************************************************)
\* A command of client c of the given kind has come back with the given
\* outcome in this step.
CameBack(c, kind, outcome) ==
  /\ ~IsNull(lastDone')
  /\ Val(lastDone') = [c |-> c, kind |-> kind, outcome |-> outcome]

\* C15 (as stated): when a device command of the reconciler is rejected, a
\* load/play command or a pause command, the status becomes error and an error
\* message is set.
C15_Original ==
  [][\A c \in Clients : \A kind \in {"play", "pause"} :
       CameBack(c, kind, "rejected") =>
         syncStatus'[c] = "error" /\ error'[c] # NULL]_vars

\* Client c's socket, the hook's handlers on it, reconnects in this step.
Reconnects(c) == ~connected[c] /\ connected'[c] /\ registered[c]

\* Client c's socket has reconnected and the hook has not been set up anew.
Reconnected(c) == registered[c] /\ connected[c] /\ ~hasRequestedInitialSync[c]

C17_Original ==
  [][\A c \in Clients :
       (HasHandled(c) /\ SyncActive(c)
          /\ Handled.isPlaying /\ Handled.trackUri = lastSyncedTrack[c]
          /\ inFlight[c] = EmptyBag
          /\ ~IsNull(hostState[c]) /\ ~Val(hostState[c]).isPlaying
          /\ Val(hostState[c]).trackUri = Handled.trackUri
          /\ ~devPlaying[c])
         => \E r \in BagToSet(inFlight'[c]) :
              r.kind = "play" /\ r.trackUri = Handled.trackUri]_vars

\* C18 (as stated): after every device command answered OK, a load/play as
\* well as a pause, the status is synced.
C18_Original ==
  [][\A c \in Clients : \A kind \in {"play", "pause"} :
       CameBack(c, kind, "ok") => syncStatus'[c] = "synced"]_vars

\* manualSync runs on client c's connected socket in this step: nothing else
\* emits on a connected socket whose handlers are on.
ManualSyncs(c) ==
  /\ registered[c] /\ connected[c]
  /\ outbox'[c] = Append(outbox[c], RequestSyncMsg)

C20_Original == pollsInFlight <= 1

(***************************************************************************)
(* Properties of the poller left to run (FairPoller).                      *)
(***************************************************************************)
(***************************************************************************)
(* C21: a host poll that fails (an answer that is not OK, 401 included, or *)
(*   a thrown error) leaves the registry's update, and with it the track   *)
(*   and play state last seen, as they were and sends nothing to any       *)
(*   socket; and the timer goes on: after a failed poll another poll is    *)
(*   started.                                                              *)
(***************************************************************************)
C21_FailedPollIsSkipped ==
  /\ [][CameBack("server", "poll", "failed") =>
          /\ latestHostUpdate' = latestHostUpdate
          /\ lastArrived' = lastArrived
          /\ lastEmit' = None
          /\ inbox' = inbox]_vars
  /\ (lastDone = PollEvent("failed")) ~> (lastDone = PollEvent("started"))

\* A poll has just failed while both pages are connected and the registry
\* holds an update of a track the host has left since.
C21_Witness ==
  /\ lastDone = PollEvent("failed")
  /\ connected["L"] /\ connected["H"]
  /\ ~IsNull(latestHostUpdate)
  /\ Val(latestHostUpdate).trackUri # hostTrack

\* C22: an update that arrives while a command of the same listener is still
\* awaited is run through the decision step all the same: when it names another
\* track than the update before it, a request for it is sent, pending command
\* or not.
C22_Original ==
  [][(/\ HasHandled("L")
      /\ inFlight["L"] # EmptyBag
      /\ ~IsNull(hostState["L"])
      /\ Handled.trackUri # Val(hostState["L"]).trackUri)
     => \E r \in BagToSet(inFlight'["L"]) :
          /\ r.trackUri = Handled.trackUri
          /\ CopiesIn(r, inFlight'["L"]) > CopiesIn(r, inFlight["L"])]_vars

\* C23: in the steady state no command is issued: a paused update of the track
\* that was applied last, handled when the device is already paused and no
\* command is awaited, sends nothing.
C23_Original ==
  [][(/\ HasHandled("L")
      /\ SyncActive("L")
      /\ ~Handled.isPlaying
      /\ Handled.trackUri = lastSyncedTrack["L"]
      /\ ~devPlaying["L"]
      /\ inFlight["L"] = EmptyBag)
     => SentNothing("L")]_vars

\* C24: on the video surface an update that continues the one before it (the
\* same track, playing, its position advanced by the time that passed), handled
\* when the video of that track is already loaded, loads no video again.
C24_Original ==
  [][(/\ HasHandled("L")
      /\ ~IsNull(hostState["L"])
      /\ Continues(Val(hostState["L"]), Handled)
      /\ loadedVideo = TrackKey(Handled))
     => lastLoads' = 0]_vars

\* C25: an update that keeps the title and artist of the one before it
\* starts no content lookup, whether the lookup made for that track found a
\* video, found none, or is still awaited.
C25_Original ==
  [][(/\ HasHandled("L")
      /\ ~IsNull(hostState["L"])
      /\ TrackKey(Handled) = TrackKey(Val(hostState["L"])))
     => searches' = searches]_vars

(***************************************************************************)
(* Properties of the registry's content and of who may write it (SpecHub). *)
(***************************************************************************)
\* The data model's invariant of an update, as far as its fields are followed:
\* no track implies not playing.
WellFormed(u) == u.trackUri = NULL => ~u.isPlaying

\* C26: every update the server stores as the latest, and every update it
\* sends to a session, satisfies the data model's invariant.
C26_Original ==
  /\ ~IsNull(latestHostUpdate) => WellFormed(Val(latestHostUpdate))
  /\ ~IsNull(lastEmit) => WellFormed(Val(lastEmit).update)

\* C27: a host_update sent by a session that is not the host's neither
\* overwrites the registry's latest update nor is sent on to other sessions.
C27_Original ==
  [][\A c \in Listeners :
       ServerHandles(c, "host_update")
         => latestHostUpdate' = latestHostUpdate /\ lastEmit' = None]_vars

\* C28: one load command for one track change of the host: a playing update
\* of a track whose load command is still awaited sends nothing.
C28_Original ==
  [][(/\ HasHandled("L")
      /\ SyncActive("L")
      /\ Handled.isPlaying
      /\ BagIn(PlayRequestAt(Handled, Handled.progressMs), inFlight["L"]))
     => SentNothing("L")]_vars

\* C29: while a listener's socket is disconnected its status is disconnected,
\* whatever comes back of the commands that were awaited when the connection
\* was lost.
C29_Original ==
  \A c \in Listeners :
    (registered[c] /\ ~connected[c]) => syncStatus[c] = "disconnected"

\* C30: the polls' answers are applied in the order the polls started: a poll
\* whose answer overwrites the registry was not started before a poll that has
\* already come back.
C30_Original ==
  [][(PollCompletes /\ hostTrack # NULL /\ ~IsNull(latestHostUpdate'))
       => overtaken' >= overtaken]_vars

====
